---- MODULE Spec2Model ----
(***************************************************************************)
(* The five stage programs of the ML pipeline (data_ingestion,             *)
(* preprocessing, model_training, evaluation, deployment) as one state     *)
(* machine over a shared output root.  A stage program is invoked with an  *)
(* argument vector and a configuration file, runs its body statement by    *)
(* statement, and exits.  Only the structured (JSON) records a stage       *)
(* prints are modelled on the two channels; the human-readable progress    *)
(* lines are left out.                                                     *)
(***************************************************************************)
EXTENDS Integers, Sequences, FiniteSets, TLC

Stages == {"data_ingestion", "preprocessing", "model_training", "evaluation", "deployment"}

\* ---------------------------------------------------------------- paths
InputPath == "input.csv"

Dir(s) == s \o "/"

IngestFiles == {"data_ingestion/data_summary.json", "data_ingestion/ingested_data.csv"}

SplitFiles == {"preprocessing/X_train.csv", "preprocessing/X_test.csv",
               "preprocessing/y_train.csv", "preprocessing/y_test.csv"}

TransformNames == {"scaler.pkl", "label_encoders.pkl", "target_encoder.pkl"}

PrepFiles == SplitFiles \cup {"preprocessing/preprocessing_metadata.json"}
             \cup {"preprocessing/" \o t : t \in TransformNames}

TrainFiles == {"model_training/trained_model.pkl", "model_training/predictions.csv",
               "model_training/training_metrics.json", "model_training/model_metadata.json"}

EvalFiles == {"evaluation/confusion_matrix.png", "evaluation/regression_plots.png",
              "evaluation/feature_importance.png", "evaluation/detailed_predictions.csv",
              "evaluation/evaluation_results.json", "evaluation/evaluation_report.md"}

DeployFiles == {"deployment/model.pkl", "deployment/preprocessing_metadata.json",
                "deployment/model_api.py", "deployment/requirements.txt",
                "deployment/Dockerfile", "deployment/DEPLOYMENT.md",
                "deployment/deployment_info.json", "deployment/example_usage.py"}
               \cup {"deployment/" \o t : t \in TransformNames}

StageFiles(s) ==
    CASE s = "data_ingestion" -> IngestFiles
      [] s = "preprocessing"  -> PrepFiles
      [] s = "model_training" -> TrainFiles
      [] s = "evaluation"     -> EvalFiles
      [] s = "deployment"     -> DeployFiles

Paths == {InputPath} \cup {Dir(s) : s \in Stages} \cup UNION {StageFiles(s) : s \in Stages}

\* What a file holds: the name of the dataset its data derives from (or
\* "dir", "text", "empty" for directories, generated text and empty files)
\* and, for files derived from a trained estimator, the estimator's class;
\* for a table, its number of rows and its column names in order (for a
\* metadata file: the row count and the column list it records; for a
\* pickled estimator: the columns it was fit on).
Content(data, model) == [data |-> data, model |-> model, rows |-> 0, columns |-> << >>]

Table(c, rows, columns) == [c EXCEPT !.rows = rows, !.columns = columns]

Absent == Content("absent", "")

\* ------------------------------------------------------------- datasets
\* The datasets an input file may hold.  A dataset is described by what the
\* stage bodies branch on: its feature columns, whether it has object-typed
\* (categorical) feature columns, whether any feature column is numeric after
\* label encoding, whether the target is object-typed, the storage type the
\* target has when read back from y_train.csv, its row count, the number of
\* distinct target values and the size of its smallest target class; objects
\* and bools are its object-typed and its boolean feature columns.
NSamples == 1000

NFeatures == 20

SyntheticFeatures ==
    << "feature_0", "feature_1", "feature_2", "feature_3", "feature_4",
       "feature_5", "feature_6", "feature_7", "feature_8", "feature_9",
       "feature_10", "feature_11", "feature_12", "feature_13", "feature_14",
       "feature_15", "feature_16", "feature_17", "feature_18", "feature_19" >>

Synthetic ==
    [name |-> "synthetic", features |-> SubSeq(SyntheticFeatures, 1, NFeatures),
     categorical |-> FALSE, numeric |-> TRUE, objTarget |-> FALSE,
     objects |-> {}, bools |-> {},
     ydtype |-> "int64", rows |-> NSamples, nUnique |-> 2, minClass |-> 400]

UserDatasets ==
    { [name |-> "mixed", features |-> << "city", "age" >>,
       categorical |-> TRUE, numeric |-> TRUE, objTarget |-> TRUE,
       objects |-> {"city"}, bools |-> {},
       ydtype |-> "int64", rows |-> 10, nUnique |-> 2, minClass |-> 4],
      [name |-> "flags", features |-> << "flag" >>,
       categorical |-> FALSE, numeric |-> FALSE, objTarget |-> TRUE,
       objects |-> {}, bools |-> {"flag"},
       ydtype |-> "int64", rows |-> 10, nUnique |-> 2, minClass |-> 5],
      [name |-> "rare", features |-> << "x" >>,
       categorical |-> FALSE, numeric |-> TRUE, objTarget |-> FALSE,
       objects |-> {}, bools |-> {},
       ydtype |-> "int64", rows |-> 10, nUnique |-> 3, minClass |-> 1],
      [name |-> "prices", features |-> << "x", "z" >>,
       categorical |-> FALSE, numeric |-> TRUE, objTarget |-> FALSE,
       objects |-> {}, bools |-> {},
       ydtype |-> "float64", rows |-> 12, nUnique |-> 2, minClass |-> 6] }

Datasets == UserDatasets \cup {Synthetic}

DatasetNames == {d.name : d \in Datasets}

Kind(n) == CHOOSE d \in Datasets : d.name = n

\* The CSV file of dataset d: its feature columns followed by its target.
CsvOf(d) == Table(Content(d.name, ""), d.rows, Append(d.features, "target"))

\* Whether name c is among the columns.
HasColumn(columns, c) == \E i \in DOMAIN columns : columns[i] = c

\* The target column preprocess_data settles on: 'target' if there is one,
\* else the first of label, y, class that is a column, else the last column.
target_col(columns) ==
    IF HasColumn(columns, "target") THEN "target"
    ELSE IF HasColumn(columns, "label") THEN "label"
    ELSE IF HasColumn(columns, "y") THEN "y"
    ELSE IF HasColumn(columns, "class") THEN "class"
    ELSE columns[Len(columns)]

\* df.drop(columns=[c]).columns
DropColumn(columns, c) == LET Keep(x) == x # c IN SelectSeq(columns, Keep)

\* The columns of a frame after  frame[cols] = values  where every assigned
\* column is moved behind the others.
AssignColumnsMovingThem(columns, cols) ==
    LET Other(x) == ~HasColumn(cols, x) IN SelectSeq(columns, Other) \o cols

\* The columns of a frame after  frame[cols] = values : a column the frame
\* has keeps its place, a new one is added at the end.
AssignColumns(columns, cols) ==
    LET New(x) == ~HasColumn(columns, x) IN columns \o SelectSeq(cols, New)

\* Rows of the training split: train_test_split puts ceil(test_size * rows)
\* rows in the test split and the rest in the training split.
TestSizePct == 20

TestRows(rows) == (rows * TestSizePct + 99) \div 100

\* The training rows as test_size's complement rounded on its own.
TrainRowsRounded(rows) == (rows * (100 - TestSizePct) + 50) \div 100

TrainRows(rows) == rows - TestRows(rows)

\* ------------------------------------------------------- pure functions
\* Storage types a target column can have when read back from a CSV file.
DTypes == {"float64", "float32", "float16", "int64", "int32", "int16", "uint8", "uint64",
           "object", "category", "bool"}

\* The integer storage types among them.  read_csv gives an integer column
\* int64, or uint64 when a value is above the largest int64; the narrower
\* widths come from arrays built with an explicit dtype.
IntegerDTypes == {"int64", "int32", "int16", "uint8", "uint64"}

\* The most distinct values a target of storage type t can hold, as far as
\* the model's bound on distinct values lets it matter.
DistinctLimit(t, most) == IF t = "bool" THEN 2 ELSE most

\* 'float' in data_type: the storage-type names that contain "float".
FloatDTypes == {"float64", "float32", "float16"}

\* determine_problem_type with the floating-point test left out, so that a
\* float target goes through the distinct-value heuristics.
determine_problem_type_ignoring_float(data_type, n_unique, n_samples) ==
    IF data_type \in {"int64", "int32", "object", "category", "float64", "float32", "float16"}
    THEN IF n_unique <= 10 THEN "classification"
         ELSE IF n_unique > 50 THEN "regression"
         ELSE IF 2 * n_unique > n_samples THEN "regression"
         ELSE "classification"
    ELSE "classification"

\* determine_problem_type(y_train) on a target of storage type data_type with
\* n_unique distinct values among n_samples values.  unique_ratio > 0.5 is
\* n_unique / n_samples > 0.5, which is 2 * n_unique > n_samples.
determine_problem_type(data_type, n_unique, n_samples) ==
    IF data_type \in FloatDTypes
    THEN "regression"
    ELSE IF data_type \in {"int64", "int32", "object", "category"}
         THEN IF n_unique <= 10 THEN "classification"
              ELSE IF n_unique > 50 THEN "regression"
              ELSE IF 2 * n_unique > n_samples THEN "regression"
              ELSE "classification"
         ELSE "classification"

\* Problem type recorded in model_metadata.json for a model trained on the
\* splits of dataset d.
ProblemTypeOf(d) == determine_problem_type(d.ydtype, d.nUnique, TrainRows(d.rows))

\* An exit status that does not depend on the outcome.
ExitStatusAlwaysZero(success) == 0

\* sys.exit(0 if success else 1)

ExitStatus(success) == IF success THEN 0 ELSE 1

\* The performance grade of evaluate_model.  The metric (accuracy for
\* classification, R2 otherwise) is counted in hundredths, in which the four
\* thresholds 0.9, 0.8, 0.7 and 0.6 are whole numbers.
performance_grade_inclusive(problem_type, metric) ==
    IF problem_type = "classification"
    THEN IF metric >= 90 THEN "Excellent" ELSE IF metric >= 80 THEN "Good"
         ELSE IF metric >= 70 THEN "Fair" ELSE "Poor"
    ELSE IF metric >= 90 THEN "Excellent" ELSE IF metric >= 80 THEN "Good"
         ELSE IF metric >= 60 THEN "Fair" ELSE "Poor"

performance_grade_flipped(problem_type, metric) ==
    IF problem_type = "classification"
    THEN IF metric > 90 THEN "Excellent" ELSE IF metric < 80 THEN "Good"
         ELSE IF metric > 70 THEN "Fair" ELSE "Poor"
    ELSE IF metric > 90 THEN "Excellent" ELSE IF metric < 80 THEN "Good"
         ELSE IF metric > 60 THEN "Fair" ELSE "Poor"

performance_grade(problem_type, metric) ==
    IF problem_type = "classification"
    THEN IF metric > 90 THEN "Excellent" ELSE IF metric > 80 THEN "Good"
         ELSE IF metric > 70 THEN "Fair" ELSE "Poor"
    ELSE IF metric > 90 THEN "Excellent" ELSE IF metric > 80 THEN "Good"
         ELSE IF metric > 60 THEN "Fair" ELSE "Poor"

\* The replacement fields of the f-string of create_api_template, as
\* (expression, format spec) pairs in the order they are evaluated.  Text
\* after the first top-level ':' of a field is its format spec; the field of
\* line 198 is the string "accuracy" followed by the rest of the line as its
\* format spec.
ApiTemplateFields ==
    << [expr |-> "model_metadata.get('model_type', 'Unknown')", spec |-> ""],
       [expr |-> "problem_type", spec |-> ""],
       [expr |-> "features", spec |-> ""],
       [expr |-> "evaluation_results.get('performance_grade', 'Unknown')", spec |-> ""],
       [expr |-> "\"accuracy\"",
        spec |-> " evaluation_results.get('accuracy'),\" if problem_type == 'classification' else \"r2_score\": evaluation_results.get('r2_score'),\""],
       [expr |-> "len(features)", spec |-> ""],
       [expr |-> "features", spec |-> ""],
       [expr |-> "problem_type", spec |-> ""] >>

\* str.__format__ accepts [[fill]align][width][.precision][s]; of the specs
\* that occur in the template only the empty one has that form.
StrFormatSpecValid(spec) == spec = ""

\* create_api_template returns the template text unless formatting one of
\* its fields raises ValueError (Invalid format specifier).
ApiTemplateRaises == \E i \in 1..Len(ApiTemplateFields) : ~StrFormatSpecValid(ApiTemplateFields[i].spec)

\* Whether the text create_api_template would return is a Python module that
\* compiles: line 210 renders as  return jsonify({...}, 400  with the call's
\* parenthesis left open.
ApiTemplateCompiles == FALSE

\* ---------------------------------------------------------------- state
VARIABLES
    fs,        \* the store: path -> what the file holds, or Absent
    pc,        \* "idle", "loading", "executing", "exited"
    stage,     \* the stage program of the current invocation
    argc,      \* number of command-line arguments given to it
    cfg,       \* the configuration file given: "ok", "unreadable", "null"
    algorithm, \* model.algorithm of the pipeline's configuration mapping
    ip,        \* position in the stage body
    stdout,    \* structured records printed on the primary channel
    stderr,    \* structured records printed on the error channel
    written,   \* paths created or overwritten by the current invocation
    fault,     \* exception raised in the current invocation, or "none"
    message,   \* str(e) of that exception
    ret,       \* what the stage body returned: "none", "True", "False"
    exitCode,  \* process exit status, -1 while running
    api,       \* last request to the serving interface and its response
    pt,        \* input and result of determine_problem_type
    calc,      \* inputs and results of get_model and of the grading
    previous   \* what preprocessing/ held when a run of preprocessing started
               \* right after a run of preprocessing that succeeded

vars == << fs, pc, stage, argc, cfg, algorithm, ip, stdout, stderr, written, fault, message,
           ret, exitCode, api, pt, calc, previous >>

Exists(p) == fs[p] # Absent

\* Dataset held by the file at path p.
HasDataset(p) == fs[p].data \in DatasetNames

DataAt(p) == Kind(fs[p].data)

\* --------------------------------------------------------- configuration
\* The configuration file a stage is given is unreadable (missing, or not
\* YAML), parses to None ("null", an empty file), or is the pipeline's
\* mapping ("ok"), whose model.algorithm is the variable algorithm.
Algorithms == {"random_forest", "logistic_regression"}

Configs == {"unreadable", "null", "ok"}

\* get_model with one table for both problem types.
get_model_one_table(algorithm_id, problem_type) ==
    CASE algorithm_id = "logistic_regression" -> "LogisticRegression"
      [] algorithm_id = "linear_regression"   -> "LinearRegression"
      [] algorithm_id = "svm" ->
            IF problem_type = "classification" THEN "SVC" ELSE "SVR"
      [] OTHER ->
            IF problem_type = "classification"
            THEN "RandomForestClassifier" ELSE "RandomForestRegressor"

\* get_model(model_config, problem_type): the class of the estimator.
get_model(algorithm_id, problem_type) ==
    IF problem_type = "classification"
    THEN CASE algorithm_id = "random_forest"       -> "RandomForestClassifier"
           [] algorithm_id = "logistic_regression" -> "LogisticRegression"
           [] algorithm_id = "svm"                 -> "SVC"
           [] OTHER                             -> "RandomForestClassifier"
    ELSE CASE algorithm_id = "random_forest"       -> "RandomForestRegressor"
           [] algorithm_id = "linear_regression"   -> "LinearRegression"
           [] algorithm_id = "svm"                 -> "SVR"
           [] OTHER                             -> "RandomForestRegressor"

\* hasattr(model, 'feature_importances_')
HasImportances(model) == model \in {"RandomForestClassifier", "RandomForestRegressor"}

\* ------------------------------------------------------- stage programs
\* A stage body is a sequence of statements.  k is the kind of statement,
\* p the path it touches, on whether its guarding condition holds (a
\* statement whose guard is false is skipped), src what it writes.
Op(k, p, on, src) == [k |-> k, p |-> p, on |-> on, src |-> src]

None == Content("", "")

IngestProgram ==
    LET s == "data_ingestion" d == fs[InputPath] IN
    << Op("config", "", TRUE, None),
       Op("sample", InputPath, ~Exists(InputPath), CsvOf(Synthetic)),
       Op("read", InputPath, TRUE, None),
       Op("mkdir", Dir(s), TRUE, None),
       Op("write", "data_ingestion/data_summary.json", TRUE, d),
       Op("write", "data_ingestion/ingested_data.csv", TRUE, d),
       Op("emit", "", TRUE, None) >>

\* Preprocessing writes the metadata before the fitted transforms.  pickle is
\* imported inside "if scaler:", so it is a local name that is bound only
\* when a scaler was fitted; the later dumps open their file and then use it.
PreprocessProgram ==
    LET s == "preprocessing"
        in == "data_ingestion/ingested_data.csv"
        df == fs[in]
        d == Content(df.data, "")
        kind == IF HasDataset(in) THEN DataAt(in) ELSE Synthetic
        X == IF df.columns = << >> THEN << >>
             ELSE DropColumn(df.columns, target_col(df.columns))
        IsObject(c) == c \in kind.objects
        categorical_cols == SelectSeq(X, IsObject)
        X_filled == AssignColumns(X, categorical_cols)
        IsNumber(c) == c \notin kind.bools
        numeric_cols == SelectSeq(X_filled, IsNumber)
        X_scaled == AssignColumns(X_filled, numeric_cols)
        scaler == HasDataset(in) /\ numeric_cols # << >>
        label_encoders == HasDataset(in) /\ categorical_cols # << >>
        target_encoder == HasDataset(in) /\ DataAt(in).objTarget
        dump == IF scaler THEN "dump" ELSE "dumpUnbound"
        train == TrainRows(df.rows)
        test == TestRows(df.rows)
    IN
    << Op("config", "", TRUE, None),
       Op("need", in, TRUE, None),
       Op("read", in, TRUE, None),
       Op("split", in, TRUE, None),
       Op("mkdir", Dir(s), TRUE, None),
       Op("write", "preprocessing/X_train.csv", TRUE, Table(d, train, X_scaled)),
       Op("write", "preprocessing/X_test.csv", TRUE, Table(d, test, X_scaled)),
       Op("write", "preprocessing/y_train.csv", TRUE, Table(d, train, << "target" >>)),
       Op("write", "preprocessing/y_test.csv", TRUE, Table(d, test, << "target" >>)),
       Op("write", "preprocessing/preprocessing_metadata.json", TRUE, Table(d, train, X)),
       Op("dump", "preprocessing/scaler.pkl", scaler, d),
       Op(dump, "preprocessing/label_encoders.pkl", label_encoders, d),
       Op(dump, "preprocessing/target_encoder.pkl", target_encoder, d) >>

TrainProgram ==
    LET s == "model_training"
        in == "preprocessing/y_train.csv"
        problem_type == IF HasDataset(in) THEN ProblemTypeOf(DataAt(in)) ELSE "classification"
        X_train == fs["preprocessing/X_train.csv"]
        d == Table(Content(X_train.data, get_model(algorithm, problem_type)),
                   X_train.rows, X_train.columns)
        predictions == Table(d, fs["preprocessing/y_test.csv"].rows, << "y_true", "y_pred" >>)
    IN
    << Op("config", "", TRUE, None),
       Op("read", "preprocessing/X_train.csv", TRUE, None),
       Op("read", "preprocessing/X_test.csv", TRUE, None),
       Op("read", "preprocessing/y_train.csv", TRUE, None),
       Op("read", "preprocessing/y_test.csv", TRUE, None),
       Op("read", "preprocessing/preprocessing_metadata.json", TRUE, None),
       Op("fit", "", TRUE, None),
       Op("mkdir", Dir(s), TRUE, None),
       Op("write", "model_training/trained_model.pkl", TRUE, d),
       Op("write", "model_training/predictions.csv", TRUE, predictions),
       Op("write", "model_training/training_metrics.json", TRUE, d),
       Op("write", "model_training/model_metadata.json", TRUE, d) >>

\* problem_type comes from model_metadata.json, the estimator from
\* trained_model.pkl.
EvaluateProgram ==
    LET s == "evaluation"
        meta == "model_training/model_metadata.json"
        pkl == "model_training/trained_model.pkl"
        problem_type == IF HasDataset(meta) THEN ProblemTypeOf(DataAt(meta)) ELSE "classification"
        d == fs[pkl]
    IN
    << Op("config", "", TRUE, None),
       Op("read", pkl, TRUE, None),
       Op("read", "preprocessing/X_test.csv", TRUE, None),
       Op("read", "preprocessing/y_test.csv", TRUE, None),
       Op("read", meta, TRUE, None),
       Op("predict", "", TRUE, None),
       Op("mkdir", Dir(s), TRUE, None),
       Op("write", "evaluation/confusion_matrix.png", problem_type = "classification", d),
       Op("write", "evaluation/regression_plots.png", problem_type # "classification", d),
       Op("write", "evaluation/feature_importance.png", HasImportances(d.model), d),
       Op("write", "evaluation/detailed_predictions.csv", TRUE, d),
       Op("write", "evaluation/evaluation_results.json", TRUE, d),
       Op("write", "evaluation/evaluation_report.md", TRUE, d) >>

\* A copy whose destination is put together from the source's directory.
CopyOpIntoSource(src, dst) == Op("write", src, Exists(src), fs[src])

CopyOp(src, dst) == Op("write", dst, Exists(src), fs[src])

DeployProgram ==
    LET s == "deployment"
        d == fs["model_training/model_metadata.json"]
        text == Content("text", "")
    IN
    << Op("config", "", TRUE, None),
       Op("mkdir", Dir(s), TRUE, None),
       Op("read", "model_training/model_metadata.json", TRUE, None),
       Op("read", "evaluation/evaluation_results.json", TRUE, None),
       CopyOp("model_training/trained_model.pkl", "deployment/model.pkl"),
       CopyOp("preprocessing/preprocessing_metadata.json", "deployment/preprocessing_metadata.json"),
       CopyOp("preprocessing/scaler.pkl", "deployment/scaler.pkl"),
       CopyOp("preprocessing/label_encoders.pkl", "deployment/label_encoders.pkl"),
       CopyOp("preprocessing/target_encoder.pkl", "deployment/target_encoder.pkl"),
       Op("template", "", TRUE, None),
       Op("write", "deployment/model_api.py", TRUE, d),
       Op("write", "deployment/requirements.txt", TRUE, text),
       Op("write", "deployment/Dockerfile", TRUE, text),
       Op("write", "deployment/DEPLOYMENT.md", TRUE, d),
       Op("write", "deployment/deployment_info.json", TRUE, fs["evaluation/evaluation_results.json"]),
       Op("write", "deployment/example_usage.py", TRUE, d) >>

Program(s) ==
    CASE s = "data_ingestion" -> IngestProgram
      [] s = "preprocessing"  -> PreprocessProgram
      [] s = "model_training" -> TrainProgram
      [] s = "evaluation"     -> EvaluateProgram
      [] s = "deployment"     -> DeployProgram

\* ------------------------------------------------------------ reporting
SuccessRecord(s, arts) ==
    [status |-> "success", stage |-> s,
     keys |-> {"status", "stage", "outputs", "artifacts"},
     artifacts |-> arts, message |-> ""]

ErrorRecord(s, msg) ==
    [status |-> "error", stage |-> s,
     keys |-> {"status", "stage", "message", "traceback"},
     artifacts |-> {}, message |-> msg]

\* What the except blocks of a stage program (of its body and of main) print
\* on the error channel: data_ingestion prints a JSON error record, the
\* other four stages print only a line of text on the primary channel.
ExceptRecords(s, msg) ==
    IF s = "data_ingestion" THEN << ErrorRecord(s, msg) >> ELSE << >>

\* What the body prints on the primary channel at its end: data_ingestion
\* prints a JSON success record, the other four stages only lines of text.
SuccessRecords(s) ==
    IF s = "data_ingestion" THEN << SuccessRecord(s, IngestFiles) >> ELSE << >>

\* --------------------------------------------------------------- faults
NoFault == [fault |-> "none", message |-> ""]

Exc(f, m) == [fault |-> f, message |-> m]

\* The message of the FileNotFoundError that preprocessing raises itself
\* after its own existence check.
MissingIngested == "Ingested data not found at data_ingestion/ingested_data.csv"

\* The message of the FileNotFoundError that open and read_csv raise.
Errno2 == "[Errno 2] No such file or directory"

\* Raises with a split that accepts a class of one member.
RaisesUnstratified(op) ==
    CASE ~op.on -> NoFault
      [] op.k = "config" /\ cfg = "null" ->
            Exc("AttributeError", "'NoneType' object has no attribute 'get'")
      [] op.k = "need" /\ ~Exists(op.p) -> Exc("FileNotFoundError", MissingIngested)
      [] op.k = "read" /\ ~Exists(op.p) -> Exc("FileNotFoundError", Errno2)
      [] op.k = "dumpUnbound" ->
            Exc("UnboundLocalError", "local variable 'pickle' referenced before assignment")
      [] op.k = "template" /\ ApiTemplateRaises ->
            Exc("ValueError", "Invalid format specifier")
      [] OTHER -> NoFault

\* The exception statement op raises in the current state for a reason the
\* state decides, or NoFault.
Raises(op) ==
    CASE ~op.on -> NoFault
      [] op.k = "config" /\ cfg = "null" ->
            Exc("AttributeError", "'NoneType' object has no attribute 'get'")
      [] op.k = "need" /\ ~Exists(op.p) -> Exc("FileNotFoundError", MissingIngested)
      [] op.k = "read" /\ ~Exists(op.p) -> Exc("FileNotFoundError", Errno2)
      [] op.k = "split" /\ DataAt(op.p).minClass < 2 ->
            Exc("ValueError", "The least populated class in y has only 1 member")
      [] op.k = "dumpUnbound" ->
            Exc("UnboundLocalError", "local variable 'pickle' referenced before assignment")
      [] op.k = "template" /\ ApiTemplateRaises ->
            Exc("ValueError", "Invalid format specifier")
      [] OTHER -> NoFault

\* Statements that can also fail for reasons outside the state: a write that
\* the file system refuses, a library call that rejects its input.
MayFail(op) ==
    CASE ~op.on -> {}
      [] op.k \in {"write", "dump", "sample"} -> {Exc("OSError", "[Errno 28] No space left on device")}
      [] op.k \in {"fit", "predict"} -> {Exc("ValueError", "estimator rejected its input")}
      [] OTHER -> {}

\* Effect with the split tables opened for appending: rows written to a
\* table that exists are added to the rows it has.
EffectAppending(op) ==
    CASE ~op.on -> fs
      [] op.k \in {"write", "dump", "sample"} ->
            IF op.p \in SplitFiles /\ Exists(op.p)
            THEN [fs EXCEPT ![op.p] = Table(op.src, fs[op.p].rows + op.src.rows, op.src.columns)]
            ELSE [fs EXCEPT ![op.p] = op.src]
      [] op.k = "mkdir" /\ ~Exists(op.p) -> [fs EXCEPT ![op.p] = Content("dir", "")]
      [] OTHER -> fs

\* Effect with a sample dataset that is built but not saved.
EffectWithoutSample(op) ==
    CASE ~op.on -> fs
      [] op.k \in {"write", "dump"} -> [fs EXCEPT ![op.p] = op.src]
      [] op.k = "mkdir" /\ ~Exists(op.p) -> [fs EXCEPT ![op.p] = Content("dir", "")]
      [] OTHER -> fs

\* The store after statement op has run to its end.
Effect(op) ==
    CASE ~op.on -> fs
      [] op.k \in {"write", "dump", "sample"} -> [fs EXCEPT ![op.p] = op.src]
      [] op.k = "mkdir" /\ ~Exists(op.p) -> [fs EXCEPT ![op.p] = Content("dir", "")]
      [] OTHER -> fs

\* The store after statement op has raised: a dump that finds pickle unbound
\* has already opened, and so created or truncated, its file.
EffectOfRaise(op) ==
    IF op.on /\ op.k = "dumpUnbound" THEN [fs EXCEPT ![op.p] = Content("empty", "")] ELSE fs

\* The paths statement op creates or overwrites when it runs to its end, and
\* when it raises.
Writes(op) ==
    IF op.on /\ (op.k \in {"write", "dump", "sample"} \/ (op.k = "mkdir" /\ ~Exists(op.p)))
    THEN {op.p} ELSE {}

WritesOfRaise(op) == IF op.on /\ op.k = "dumpUnbound" THEN {op.p} ELSE {}

\* -------------------------------------------------------------- actions
NoRequest == [sent |-> FALSE, supplied |-> {}, required |-> {}, keyed |-> FALSE,
              status |-> 0, missing |-> {}, invoked |-> FALSE]

NoCall == [data_type |-> "", n_unique |-> 0, n_samples |-> 0, result |-> ""]

\* The files of preprocessing/ that hold the splits and their metadata, and
\* what they hold now.
ShapeFiles == SplitFiles \cup {"preprocessing/preprocessing_metadata.json"}

Snapshot == [p \in ShapeFiles |-> fs[p]]

NoSnapshot == [p \in ShapeFiles |-> Absent]

NoCalc == [problem_type |-> "", algorithm_id |-> "", model |-> "", graded |-> << >>]

Init ==
    /\ \E d \in {Absent} \cup {CsvOf(u) : u \in UserDatasets} :
          fs = [p \in Paths |-> IF p = InputPath THEN d ELSE Absent]
    /\ pc = "idle"
    /\ stage = "none"
    /\ argc = 0
    /\ cfg = "none"
    /\ algorithm \in Algorithms
    /\ ip = 0
    /\ stdout = << >>
    /\ stderr = << >>
    /\ written = {}
    /\ fault = "none"
    /\ message = ""
    /\ ret = "none"
    /\ exitCode = -1
    /\ api = NoRequest
    /\ pt = NoCall
    /\ calc = NoCalc
    /\ previous = NoSnapshot

\* main() of stage s started with a arguments after the script name, a # 2:
\* it prints the usage line and exits with status 1.
Usage(s, a) ==
    /\ pc \in {"idle", "exited"}
    /\ a # 2
    /\ stage' = s
    /\ argc' = a
    /\ cfg' = "none"
    /\ ip' = 0
    /\ stdout' = << >>
    /\ stderr' = << >>
    /\ written' = {}
    /\ fault' = "none"
    /\ message' = ""
    /\ ret' = "none"
    /\ api' = NoRequest
    /\ pc' = "exited"
    /\ exitCode' = 1
    /\ previous' = NoSnapshot
    /\ UNCHANGED << fs, algorithm, pt, calc >>

\* main() of stage s started with two arguments: configuration file c and
\* a stage id.
Invoke(s, c) ==
    /\ pc \in {"idle", "exited"}
    /\ stage' = s
    /\ argc' = 2
    /\ cfg' = c
    /\ ip' = 0
    /\ stdout' = << >>
    /\ stderr' = << >>
    /\ written' = {}
    /\ fault' = "none"
    /\ message' = ""
    /\ ret' = "none"
    /\ api' = NoRequest
    /\ pc' = "loading"
    /\ exitCode' = -1
    /\ previous' = IF s = "preprocessing" /\ stage = "preprocessing" /\ ret = "True"
                   THEN Snapshot ELSE NoSnapshot
    /\ UNCHANGED << fs, algorithm, pt, calc >>

\* load_config inside main's try: a file that cannot be opened or parsed
\* raises into main's except block, which exits with status 1.
LoadConfig ==
    /\ pc = "loading"
    /\ IF cfg = "unreadable"
       THEN /\ pc' = "exited"
            /\ fault' = "ConfigError"
            /\ message' = "cannot read configuration"
            /\ stderr' = stderr \o ExceptRecords(stage, "cannot read configuration")
            /\ exitCode' = 1
            /\ ip' = ip
       ELSE /\ pc' = "executing"
            /\ ip' = 1
            /\ UNCHANGED << fault, message, stderr, exitCode >>
    /\ UNCHANGED << fs, stage, argc, cfg, algorithm, stdout, written, ret, api, pt, calc, previous >>

Current == Program(stage)[ip]

\* One statement of the stage body runs to its end.
Step ==
    /\ pc = "executing"
    /\ ip <= Len(Program(stage))
    /\ Raises(Current) = NoFault
    /\ fs' = Effect(Current)
    /\ written' = written \cup Writes(Current)
    /\ stdout' = IF Current.k = "emit" THEN stdout \o SuccessRecords(stage) ELSE stdout
    /\ ip' = ip + 1
    /\ UNCHANGED << pc, stage, argc, cfg, algorithm, stderr, fault, message, ret, exitCode, api, pt, calc, previous >>

\* Raise with an except block around the single statement: the fault is
\* noted and the body goes on with its next statement.
RaiseAndContinue ==
    /\ pc = "executing"
    /\ ip <= Len(Program(stage))
    /\ \E e \in (IF Raises(Current) = NoFault THEN MayFail(Current) ELSE {Raises(Current)}) :
          /\ fault' = e.fault
          /\ message' = e.message
          /\ stderr' = stderr \o ExceptRecords(stage, e.message)
    /\ fs' = IF Raises(Current) = NoFault THEN fs ELSE EffectOfRaise(Current)
    /\ written' = IF Raises(Current) = NoFault THEN written ELSE written \cup WritesOfRaise(Current)
    /\ ip' = ip + 1
    /\ UNCHANGED << pc, stage, argc, cfg, algorithm, ret, exitCode, stdout, api, pt, calc, previous >>

\* A statement of the stage body raises: control passes to the except block
\* of the body, which returns False, and main exits with ExitStatus(False).
\* data_ingestion reads the configuration before its try block, so there
\* the exception of a None configuration reaches the except block of main.
Raise ==
    /\ pc = "executing"
    /\ ip <= Len(Program(stage))
    /\ \E e \in (IF Raises(Current) = NoFault THEN MayFail(Current) ELSE {Raises(Current)}) :
          /\ fault' = e.fault
          /\ message' = e.message
          /\ stderr' = stderr \o ExceptRecords(stage, e.message)
    /\ fs' = IF Raises(Current) = NoFault THEN fs ELSE EffectOfRaise(Current)
    /\ written' = IF Raises(Current) = NoFault THEN written ELSE written \cup WritesOfRaise(Current)
    /\ ret' = IF stage = "data_ingestion" /\ Current.k = "config" THEN "none" ELSE "False"
    /\ exitCode' = ExitStatus(FALSE)
    /\ pc' = "exited"
    /\ UNCHANGED << stage, argc, cfg, algorithm, ip, stdout, api, pt, calc, previous >>

\* The stage body reaches "return True" and main exits with ExitStatus(True).
Return ==
    /\ pc = "executing"
    /\ ip > Len(Program(stage))
    /\ ret' = "True"
    /\ exitCode' = ExitStatus(TRUE)
    /\ pc' = "exited"
    /\ UNCHANGED << fs, stage, argc, cfg, algorithm, ip, stdout, stderr, written, fault, message, api, pt, calc, previous >>

\* ---------------------------------------------------- serving interface
Range(f) == {f[i] : i \in DOMAIN f}

\* The serving interface of the deployment package answers requests only if
\* deployment/model_api.py was written and is a module Python can compile.
ServiceUp == Exists("deployment/model_api.py") /\ ApiTemplateCompiles

\* required_features of the generated predict(): model_metadata's features
\* as they were when the template was rendered.
RequiredFeatures ==
    IF HasDataset("deployment/model_api.py")
    THEN Range(DataAt("deployment/model_api.py").features) ELSE {}

\* predict() of the generated module on a request body that has a
\* 'features' entry (keyed) holding a record with the columns supplied.
predict(required, keyed, supplied) ==
    IF ~keyed
    THEN [status |-> 400, missing |-> {}, invoked |-> FALSE]
    ELSE LET missing_features == required \ supplied IN
         IF missing_features # {}
         THEN [status |-> 400, missing |-> missing_features, invoked |-> FALSE]
         ELSE [status |-> 200, missing |-> {}, invoked |-> TRUE]

\* Features a request may leave out: the first MaxOmit features of the model.
MaxOmit == 2

Omittable ==
    LET m == "model_training/model_metadata.json" IN
    IF HasDataset(m)
    THEN {DataAt(m).features[i] : i \in {j \in DOMAIN DataAt(m).features : j <= MaxOmit}}
    ELSE {}

ModelFeatures ==
    LET m == "model_training/model_metadata.json" IN
    IF HasDataset(m) THEN Range(DataAt(m).features) ELSE {}

\* A client posts a request to /predict of the package that a run of the
\* deployment body left behind.  Status 0 stands for no response: nothing
\* is serving.
Predict(keyed, omit, extra) ==
    /\ pc = "exited"
    /\ stage = "deployment"
    /\ argc = 2
    /\ cfg = "ok"
    /\ ~api.sent
    /\ LET supplied == IF keyed THEN (ModelFeatures \ omit) \cup extra ELSE {}
           r == IF ServiceUp THEN predict(RequiredFeatures, keyed, supplied)
                ELSE [status |-> 0, missing |-> {}, invoked |-> FALSE]
       IN api' = [sent |-> TRUE, supplied |-> supplied, required |-> ModelFeatures,
                  keyed |-> keyed,
                  status |-> r.status, missing |-> r.missing, invoked |-> r.invoked]
    /\ UNCHANGED << fs, pc, stage, argc, cfg, algorithm, ip, stdout, stderr, written,
                    fault, message, ret, exitCode, pt, calc, previous >>

Next ==
    \/ \E s \in Stages, a \in {1, 3} : Usage(s, a)
    \/ \E s \in Stages, c \in Configs : Invoke(s, c)
    \/ LoadConfig
    \/ Step
    \/ Raise
    \/ Return
    \/ \E keyed \in BOOLEAN, omit \in SUBSET Omittable, extra \in {{}, {"extra"}} :
          Predict(keyed, omit, extra)

Spec == Init /\ [][Next]_vars

\* ------------------------------------- re-runs after the input changed
\* The input file belongs to the user, who may put other data in its place
\* between two invocations.  Here the stages are re-run over one output
\* root while the input changes between two datasets; the file system
\* refuses no write and no library call rejects its input, so a statement
\* raises only for a reason the state decides.
RerunDatasets == {d \in UserDatasets : d.name \in {"mixed", "prices"}}

InitRerun ==
    /\ \E d \in RerunDatasets :
          fs = [p \in Paths |-> IF p = InputPath THEN CsvOf(d) ELSE Absent]
    /\ pc = "idle"
    /\ stage = "none"
    /\ argc = 0
    /\ cfg = "none"
    /\ algorithm = "random_forest"
    /\ ip = 0
    /\ stdout = << >>
    /\ stderr = << >>
    /\ written = {}
    /\ fault = "none"
    /\ message = ""
    /\ ret = "none"
    /\ exitCode = -1
    /\ api = NoRequest
    /\ pt = NoCall
    /\ calc = NoCalc
    /\ previous = NoSnapshot

\* The user replaces the input file by dataset d while no stage is running.
ReplaceInput(d) ==
    /\ pc \in {"idle", "exited"}
    /\ fs[InputPath] # CsvOf(d)
    /\ fs' = [fs EXCEPT ![InputPath] = CsvOf(d)]
    /\ UNCHANGED << pc, stage, argc, cfg, algorithm, ip, stdout, stderr, written,
                    fault, message, ret, exitCode, api, pt, calc, previous >>

\* A statement raises for a reason the state decides.
RaiseDetermined ==
    /\ pc = "executing"
    /\ ip <= Len(Program(stage))
    /\ Raises(Current) # NoFault
    /\ Raise

NextRerun ==
    \/ \E d \in RerunDatasets : ReplaceInput(d)
    \/ \E s \in Stages, c \in Configs : Invoke(s, c)
    \/ LoadConfig
    \/ Step
    \/ RaiseDetermined
    \/ Return

SpecRerun == InitRerun /\ [][NextRerun]_vars

\* ------------------------------------------ determine_problem_type alone
MaxUnique == 52

MaxSamples == 104

InitPT ==
    /\ fs = [p \in Paths |-> Absent]
    /\ pc = "idle"
    /\ stage = "none"
    /\ argc = 0
    /\ cfg = "none"
    /\ algorithm = "random_forest"
    /\ ip = 0
    /\ stdout = << >>
    /\ stderr = << >>
    /\ written = {}
    /\ fault = "none"
    /\ message = ""
    /\ ret = "none"
    /\ exitCode = -1
    /\ api = NoRequest
    /\ calc = NoCalc
    /\ previous = NoSnapshot
    /\ \E t \in DTypes, u \in 1..MaxUnique, n \in 1..MaxSamples :
          /\ u <= n
          /\ u <= DistinctLimit(t, MaxUnique)
          /\ pt = [data_type |-> t, n_unique |-> u, n_samples |-> n, result |-> ""]

Classify ==
    /\ pt.result = ""
    /\ pt' = [pt EXCEPT !.result = determine_problem_type(pt.data_type, pt.n_unique, pt.n_samples)]
    /\ UNCHANGED << fs, pc, stage, argc, cfg, algorithm, ip, stdout, stderr, written,
                    fault, message, ret, exitCode, api, calc, previous >>

NextPT == Classify

SpecPT == InitPT /\ [][NextPT]_vars

\* ------------------------------------------- get_model and grading alone
\* Metrics in hundredths, from MaxBelowZero hundredths under zero up to
\* MaxMetric: R2 can be negative, accuracy cannot.
MaxBelowZero == 20

MaxMetric == 100

ProblemTypes == {"classification", "regression"}

AlgorithmIds == {"random_forest", "logistic_regression", "linear_regression", "svm",
                 "gradient_boosting", "xgboost"}

InitCalc ==
    /\ fs = [p \in Paths |-> Absent]
    /\ pc = "idle"
    /\ stage = "none"
    /\ argc = 0
    /\ cfg = "none"
    /\ algorithm = "random_forest"
    /\ ip = 0
    /\ stdout = << >>
    /\ stderr = << >>
    /\ written = {}
    /\ fault = "none"
    /\ message = ""
    /\ ret = "none"
    /\ exitCode = -1
    /\ api = NoRequest
    /\ pt = NoCall
    /\ previous = NoSnapshot
    /\ \E t \in ProblemTypes : calc = [NoCalc EXCEPT !.problem_type = t]

\* get_model is called with algorithm id a.
Select(a) ==
    /\ calc.model = ""
    /\ calc.graded = << >>
    /\ calc' = [calc EXCEPT !.algorithm_id = a, !.model = get_model(a, calc.problem_type)]
    /\ UNCHANGED << fs, pc, stage, argc, cfg, algorithm, ip, stdout, stderr, written,
                    fault, message, ret, exitCode, api, pt, previous >>

\* A model with primary metric m is graded; the last two gradings are kept.
Grade(m) ==
    /\ calc.model = ""
    /\ calc.problem_type = "classification" => m >= 0
    /\ LET g == [metric |-> m, grade |-> performance_grade(calc.problem_type, m)]
       IN calc' = [calc EXCEPT !.graded = IF calc.graded = << >> THEN << g >>
                                          ELSE << calc.graded[Len(calc.graded)], g >>]
    /\ UNCHANGED << fs, pc, stage, argc, cfg, algorithm, ip, stdout, stderr, written,
                    fault, message, ret, exitCode, api, pt, previous >>

NextCalc ==
    \/ \E a \in AlgorithmIds : Select(a)
    \/ \E m \in (0 - MaxBelowZero)..MaxMetric : Grade(m)

SpecCalc == InitCalc /\ [][NextCalc]_vars

\* =============================================================== claims
Exited == pc = "exited"

\* The invocation went through Loading and its body returned True.
Succeeded == Exited /\ ret = "True"

\* The invocation went through Loading and ended without its body
\* returning True: the configuration could not be loaded, or a fault
\* occurred in the body.
Failed == Exited /\ argc = 2 /\ ret # "True"

ErrorKeys == {"status", "stage", "message", "traceback"}

SuccessKeys == {"status", "stage", "outputs", "artifacts"}

\* C1: every invocation of a stage that ends in Failed has printed one
\* structured error record (status "error", stage, message, traceback) on
\* the error channel.
C1_FailedEmitsErrorRecord ==
    Failed =>
        /\ Len(stderr) = 1
        /\ stderr[1].status = "error"
        /\ stderr[1].stage = stage
        /\ stderr[1].keys = ErrorKeys

\* C2: every invocation of a stage that ends in Succeeded has printed one
\* structured success record (status "success", stage, outputs, artifacts)
\* on the primary channel.
C2_SucceededEmitsSuccessRecord ==
    Succeeded =>
        /\ Len(stdout) = 1
        /\ stdout[1].status = "success"
        /\ stdout[1].stage = stage
        /\ stdout[1].keys = SuccessKeys

\* C3: every invocation, whichever way it ends (success, fault in the body,
\* configuration that cannot be loaded, wrong argument count), has printed
\* exactly one structured record when it exits.
C3_ExactlyOneTerminalRecord ==
    Exited => Len(stdout) + Len(stderr) = 1

\* The body ran to its "return True": two arguments, a configuration that
\* loaded, no exception, every statement passed.
BodyCompleted ==
    /\ argc = 2
    /\ cfg = "ok"
    /\ fault = "none"
    /\ ip = Len(Program(stage)) + 1

\* C4: the exit status is 0 exactly when the stage body completed, and 1 on
\* every failure (fault in the body, configuration that cannot be read or
\* parsed, argument count other than two).
C4_ExitStatusTellsOutcome ==
    Exited =>
        /\ exitCode \in {0, 1}
        /\ exitCode = 0 <=> BodyCompleted

C4_Witness ==
    /\ Exited
    /\ stage = "evaluation"
    /\ BodyCompleted
    /\ exitCode = 0

\* The artifacts of earlier stages that a stage reads or packages.
Dependencies(s) ==
    CASE s = "data_ingestion" -> {}
      [] s = "preprocessing"  -> {"data_ingestion/ingested_data.csv"}
      [] s = "model_training" -> SplitFiles \cup {"preprocessing/preprocessing_metadata.json"}
      [] s = "evaluation"     -> {"model_training/trained_model.pkl", "model_training/model_metadata.json",
                                  "preprocessing/X_test.csv", "preprocessing/y_test.csv"}
      [] s = "deployment"     -> {"model_training/model_metadata.json", "model_training/trained_model.pkl",
                                  "evaluation/evaluation_results.json",
                                  "preprocessing/preprocessing_metadata.json"}

\* A message that says, in the stage's own words, that an artifact of an
\* earlier stage is missing, as opposed to the text of the exception a
\* failed open or read_csv happens to carry.
IsMissingArtifact(m) == m = MissingIngested

\* The invocation ran its body with a loaded configuration.
RanBody == Exited /\ argc = 2 /\ cfg = "ok"

\* C5: preprocessing, model_training, evaluation and deployment, run while
\* an artifact they depend on is absent, end in Failed with a MissingArtifact
\* message and have neither succeeded nor written anything.
C5_MissingDependencyIsChecked ==
    (RanBody /\ \E d \in Dependencies(stage) : ~Exists(d)) =>
        /\ ret = "False"
        /\ IsMissingArtifact(message)
        /\ written = {}

\* C6: model_training run against an output root without
\* preprocessing/X_train.csv ends in Failed with a MissingArtifact message
\* and exit status 1, and has written nothing under model_training/.
C6_TrainingWithoutSplits ==
    (RanBody /\ stage = "model_training" /\ ~Exists("preprocessing/X_train.csv")) =>
        /\ ret = "False"
        /\ exitCode = 1
        /\ IsMissingArtifact(message)
        /\ written \cap (TrainFiles \cup {Dir("model_training")}) = {}

\* The metadata file of a stage.
Metadata(s) ==
    CASE s = "preprocessing"  -> {"preprocessing/preprocessing_metadata.json"}
      [] s = "model_training" -> {"model_training/model_metadata.json"}
      [] s = "evaluation"     -> {"evaluation/evaluation_results.json"}
      [] OTHER                -> {}

\* The files the current run of its stage is to write.
Outputs(s) ==
    {Program(s)[i].p : i \in {j \in DOMAIN Program(s) :
        Program(s)[j].on /\ Program(s)[j].k \in {"write", "dump", "dumpUnbound"}}}

\* C7: when an invocation has exited, its stage's metadata file was written
\* by it only if every other file the run was to write was written too.
C7_MetadataAfterPayload ==
    (Exited /\ stage \in Stages /\ Metadata(stage) # {} /\ Metadata(stage) \subseteq written) =>
        Outputs(stage) \subseteq written

\* C8: when model_metadata.json, trained_model.pkl, evaluation_results.json
\* and preprocessing_metadata.json exist and the file system refuses no
\* write, deployment ends in Succeeded and deployment/ holds model.pkl,
\* preprocessing_metadata.json, model_api.py and the manifests, and a copy
\* of each transform file that exists in preprocessing/.
C8_DeploymentAssemblesPackage ==
    (RanBody /\ stage = "deployment" /\ fault # "OSError"
        /\ \A d \in Dependencies("deployment") : Exists(d)) =>
        /\ ret = "True"
        /\ \A f \in {"deployment/model.pkl", "deployment/preprocessing_metadata.json",
                     "deployment/model_api.py", "deployment/requirements.txt",
                     "deployment/Dockerfile"} : Exists(f)
        /\ \A t \in TransformNames : Exists("preprocessing/" \o t) => Exists("deployment/" \o t)

\* C9: a predict request whose record omits a feature of
\* ModelMetadata.features is answered with a client error, without the
\* model being invoked, and the diagnostic names exactly the omitted
\* features.
C9_MissingFeaturesRejected ==
    (api.sent /\ api.keyed /\ api.required \ api.supplied # {}) =>
        /\ api.status = 400
        /\ ~api.invoked
        /\ api.missing = api.required \ api.supplied

\* C10: determine_problem_type returns regression for every target of a
\* floating-point storage type, whatever its number of distinct values and
\* its sample count.
C10_FloatTargetIsRegression ==
    (pt.result # "" /\ pt.data_type \in {"float64", "float32", "float16"}) =>
        pt.result = "regression"

C10_Witness ==
    /\ pt.result = "regression"
    /\ pt.data_type = "float64"
    /\ pt.n_unique = 2

\* C11: for every target of an integer storage type (of any width) or of
\* the object storage type, determine_problem_type returns classification
\* when the target has at most 10 distinct values and regression when it
\* has more than 50.
C11_IntegerOrObjectThresholds ==
    (pt.result # "" /\ pt.data_type \in IntegerDTypes \cup {"object"}) =>
        /\ pt.n_unique <= 10 => pt.result = "classification"
        /\ pt.n_unique > 50 => pt.result = "regression"

\* C12: for a target whose storage type is not floating-point and that has
\* more than 10 and at most 50 distinct values, determine_problem_type
\* returns regression exactly when distinct values / samples > 0.5, and
\* classification otherwise.
C12_RatioBand ==
    (pt.result # "" /\ pt.data_type \notin FloatDTypes
        /\ pt.n_unique > 10 /\ pt.n_unique <= 50) =>
        /\ pt.result \in {"classification", "regression"}
        /\ pt.result = "regression" <=> 2 * pt.n_unique > pt.n_samples

Grades == {"Excellent", "Good", "Fair", "Poor"}

\* C13: every graded metric has exactly the grade the strict thresholds
\* give: above 0.9 Excellent, above 0.8 Good, above 0.7 (accuracy) or 0.6
\* (R2) Fair, otherwise Poor; the boundary values and negative R2 included.
C13_GradeByStrictThresholds ==
    \A i \in DOMAIN calc.graded :
        LET g == calc.graded[i]
            fair == IF calc.problem_type = "classification" THEN 70 ELSE 60
        IN /\ g.grade \in Grades
           /\ g.grade = "Excellent" <=> g.metric > 90
           /\ g.grade = "Good" <=> (g.metric > 80 /\ g.metric <= 90)
           /\ g.grade = "Fair" <=> (g.metric > fair /\ g.metric <= 80)
           /\ g.grade = "Poor" <=> g.metric <= fair

C13_Witness ==
    /\ calc.problem_type = "regression"
    /\ Len(calc.graded) = 2
    /\ calc.graded[1] = [metric |-> 60, grade |-> "Poor"]
    /\ calc.graded[2] = [metric |-> -5, grade |-> "Poor"]

Rank == [Poor |-> 0, Fair |-> 1, Good |-> 2, Excellent |-> 3]

\* C14: of two metrics graded for the same problem type, the one that is
\* at least as large has a grade that is at least as high, in the order
\* Excellent > Good > Fair > Poor.
C14_GradeMonotonic ==
    \A i, j \in DOMAIN calc.graded :
        calc.graded[i].metric >= calc.graded[j].metric =>
            Rank[calc.graded[i].grade] >= Rank[calc.graded[j].grade]

C14_Witness ==
    /\ calc.problem_type = "classification"
    /\ Len(calc.graded) = 2
    /\ calc.graded[1] = [metric |-> 95, grade |-> "Excellent"]
    /\ calc.graded[2] = [metric |-> 85, grade |-> "Good"]

ClassificationTable == [random_forest |-> "RandomForestClassifier",
                        logistic_regression |-> "LogisticRegression", svm |-> "SVC"]

RegressionTable == [random_forest |-> "RandomForestRegressor",
                    linear_regression |-> "LinearRegression", svm |-> "SVR"]

\* C15: get_model returns an estimator for every algorithm id: the entry of
\* the problem type's own table for an id listed there, and the problem
\* type's random forest for every other id, an id listed only in the other
\* problem type's table included.
C15_UnknownAlgorithmFallsBack ==
    calc.algorithm_id # "" =>
        LET table == IF calc.problem_type = "classification"
                     THEN ClassificationTable ELSE RegressionTable
        IN calc.model = IF calc.algorithm_id \in DOMAIN table
                        THEN table[calc.algorithm_id] ELSE table["random_forest"]

C15_Witness ==
    /\ calc.problem_type = "regression"
    /\ calc.algorithm_id = "logistic_regression"
    /\ calc.model = "RandomForestRegressor"

\* C16: when a run of preprocessing has succeeded, the rows of X_train.csv
\* and of X_test.csv add up to the rows of ingested_data.csv, y_train.csv
\* has as many rows as X_train.csv and y_test.csv as many as X_test.csv;
\* of 1000 ingested rows 800 are in X_train.csv.
C16_SplitRowsAddUp ==
    (Succeeded /\ stage = "preprocessing") =>
        LET rows(f) == fs["preprocessing/" \o f].rows
            n == fs["data_ingestion/ingested_data.csv"].rows
        IN /\ rows("X_train.csv") + rows("X_test.csv") = n
           /\ rows("y_train.csv") = rows("X_train.csv")
           /\ rows("y_test.csv") = rows("X_test.csv")
           /\ n = 1000 => rows("X_train.csv") = 800

C16_Witness ==
    /\ Succeeded
    /\ stage = "preprocessing"
    /\ fs["data_ingestion/ingested_data.csv"].rows = 12
    /\ fs["preprocessing/X_train.csv"].rows = 9
    /\ fs["preprocessing/X_test.csv"].rows = 3

\* C17: a run of preprocessing on ingested data in which some target value
\* has fewer than 2 rows ends with its body returning False (the fault is
\* caught, the process does not crash) and exit status 1, and has created
\* nothing in preprocessing/.
C17_InfeasibleStratificationFails ==
    (RanBody /\ stage = "preprocessing"
        /\ HasDataset("data_ingestion/ingested_data.csv")
        /\ DataAt("data_ingestion/ingested_data.csv").minClass < 2) =>
        /\ Failed
        /\ ret = "False"
        /\ exitCode = 1
        /\ written \cap (PrepFiles \cup {Dir("preprocessing")}) = {}

C17_Witness ==
    /\ RanBody
    /\ stage = "preprocessing"
    /\ fs["data_ingestion/ingested_data.csv"].data = "rare"
    /\ fault = "ValueError"
    /\ exitCode = 1

\* C18: when preprocessing has succeeded, run right after a run of
\* preprocessing that succeeded (so on the same ingested data and with the
\* same test_size and random_state), the four split tables and
\* preprocessing_metadata.json hold what they held after the first run.
C18_PreprocessingIdempotent ==
    (Succeeded /\ stage = "preprocessing" /\ previous # NoSnapshot) =>
        Snapshot = previous

C18_Witness ==
    /\ Succeeded
    /\ stage = "preprocessing"
    /\ previous # NoSnapshot
    /\ previous["preprocessing/X_train.csv"].rows = 800
    /\ "preprocessing/preprocessing_metadata.json" \in written

\* C19: once a fault has occurred in an invocation, the invocation is
\* over: the stage has exited, and for as long as that invocation is the
\* last one nothing more is written, no statement runs and none is retried.
C19_FaultIsTerminal ==
    [][fault # "none" =>
          /\ pc = "exited"
          /\ ret # "True"
          /\ fs' = fs
          /\ fault' # "none" => (pc' = "exited" /\ ip' = ip /\ written' = written)]_vars

C19_Witness ==
    /\ Exited
    /\ stage = "model_training"
    /\ fault = "OSError"
    /\ "model_training/trained_model.pkl" \in written
    /\ ~Exists("model_training/model_metadata.json")

\* C20: the feature_columns that a run of preprocessing records in
\* preprocessing_metadata.json are, in order and content, the columns of
\* the X_train.csv and X_test.csv it wrote; the features that a run of
\* model_training records in model_metadata.json are, in order and content,
\* the columns of X_train.csv, on which the estimator it persisted was fit.
C20_FeatureOrderPreserved ==
    /\ "preprocessing/preprocessing_metadata.json" \in written =>
          /\ fs["preprocessing/preprocessing_metadata.json"].columns
                = fs["preprocessing/X_train.csv"].columns
          /\ fs["preprocessing/preprocessing_metadata.json"].columns
                = fs["preprocessing/X_test.csv"].columns
    /\ "model_training/model_metadata.json" \in written =>
          /\ fs["model_training/model_metadata.json"].columns
                = fs["model_training/trained_model.pkl"].columns
          /\ fs["model_training/trained_model.pkl"].columns
                = fs["preprocessing/X_train.csv"].columns

C20_Witness ==
    /\ Succeeded
    /\ stage = "model_training"
    /\ fs["model_training/model_metadata.json"].columns = << "city", "age" >>
    /\ fs["preprocessing/preprocessing_metadata.json"].columns = << "city", "age" >>
    /\ fs["preprocessing/X_train.csv"].columns = << "city", "age" >>

\* The subdirectory of stage s and the files in it.
Own(s) == StageFiles(s) \cup {Dir(s)}

\* C21: whatever was run before, the paths an invocation of a stage has
\* created or overwritten are all inside that stage's own subdirectory.
C21_WritesOnlyOwnSubdirectory ==
    stage \in Stages => written \subseteq Own(stage)

\* C21, amended: a step of a stage changes, creates or overwrites only
\* paths inside that stage's own subdirectory, except that data_ingestion
\* creates the input file at input_path when there is none.
C21_OwnSubdirectoryOrAbsentInput ==
    [][\A p \in Paths :
          (fs'[p] # fs[p] \/ p \in written' \ written) =>
              \/ p \in Own(stage)
              \/ p = InputPath /\ stage = "data_ingestion" /\ ~Exists(p)]_vars

C21_Witness ==
    /\ Succeeded
    /\ stage = "data_ingestion"
    /\ InputPath \in written
    /\ IngestFiles \subseteq written

\* C22: when a run of preprocessing has succeeded, over whatever earlier
\* runs left in the output root, each of scaler.pkl, label_encoders.pkl and
\* target_encoder.pkl is in preprocessing/ exactly if this run fitted and
\* wrote it.
C22_TransformFilesAreOfThisRun ==
    (Succeeded /\ stage = "preprocessing") =>
        \A t \in TransformNames :
            Exists("preprocessing/" \o t) <=> ("preprocessing/" \o t) \in written

\* C24: a run of data_ingestion with a loaded configuration fails only when
\* the file system refuses a write, never because the input file is
\* absent: a run that found no input file and succeeded has put a dataset
\* of 1000 rows with 20 feature columns and a target at input_path and has
\* ingested it; and an input file that exists is left as it is by every
\* step, so later runs ingest the same data.
C24_AbsentInputIsSampled ==
    /\ [](RanBody /\ stage = "data_ingestion" =>
            /\ Failed => fault = "OSError"
            /\ (Succeeded /\ InputPath \in written) =>
                  /\ fs[InputPath].data = "synthetic"
                  /\ fs[InputPath].rows = 1000
                  /\ Len(fs[InputPath].columns) = 21
                  /\ fs[InputPath].columns[21] = "target"
                  /\ fs["data_ingestion/ingested_data.csv"] = fs[InputPath])
    /\ [][Exists(InputPath) => fs'[InputPath] = fs[InputPath]]_vars

C24_Witness ==
    /\ Succeeded
    /\ stage = "data_ingestion"
    /\ InputPath \notin written
    /\ fs[InputPath].data = "synthetic"
    /\ fs["data_ingestion/ingested_data.csv"].rows = 1000

====
